---- MODULE Spec2Model ----
(***************************************************************************)
(* Reviewer management of python-gerrit-api:                               *)
(*   gerrit/changes/reviewers.py                                           *)
(*     GerritChangeReviewers  (list, get, add)                             *)
(*     GerritChangeReviewer   (delete, list_votes, delete_vote)            *)
(* One client drives one GerritChangeReviewers collection of one change    *)
(* against a Gerrit server whose reviewer set other clients modify too.    *)
(* Every HTTP call is one atomic step of the server; add is three steps.   *)
(***************************************************************************)
EXTENDS Integers, Sequences, FiniteSets, TLC

VARIABLES reviewers, pc, cur, held

vars == <<reviewers, pc, cur, held>>

\* gerrit/accounts/account.py: the GerritAccount model, the account on the
\* server, and the last operation on the model
VARIABLES local_account, server_account, last

account_vars == <<local_account, server_account, last>>

(***************************************************************************)
(* Bounds of the model                                                     *)
(***************************************************************************)
\* number of registered accounts known to the server
NumAccounts == 2

(***************************************************************************)
(* Python values: None, int, str; dicts are functions from keys to values  *)
(***************************************************************************)
None == [t |-> "none"]

PyInt(n) == [t |-> "int", i |-> n]

PyStr(s) == [t |-> "str", s |-> s]

DigitChar(d) ==
  CASE d = 0 -> "0" [] d = 1 -> "1" [] d = 2 -> "2" [] d = 3 -> "3"
    [] d = 4 -> "4" [] d = 5 -> "5" [] d = 6 -> "6" [] d = 7 -> "7"
    [] d = 8 -> "8" [] d = 9 -> "9"

RECURSIVE IntStr(_)
\* str(n) of a non-negative int
IntStr(n) == IF n < 10 THEN DigitChar(n) ELSE IntStr(n \div 10) \o DigitChar(n % 10)

\* f"{v}": what an f-string puts for a value
Format(v) ==
  CASE v.t = "none" -> "None"
    [] v.t = "int" -> IntStr(v.i)
    [] v.t = "str" -> v.s

\* dict.get(key): the value, or None when the key is missing
DictGet(d, key) == IF key \in DOMAIN d THEN d[key] ELSE None

(***************************************************************************)
(* The server's directory                                                  *)
(***************************************************************************)
Change == "P~stable~I123"

AccountIds == 1001 .. (1000 + NumAccounts)

Username(a) == "u" \o IntStr(a)

Email(a) == Username(a) \o "@example.com"

\* the ReviewerInfo record the server sends for a registered account
AccountInfo(a) ==
  [_account_id |-> PyInt(a), username |-> PyStr(Username(a)), email |-> PyStr(Email(a))]

AccountInfos == {AccountInfo(a) : a \in AccountIds}

GuestEmail == "guest@example.com"

\* a reviewer by e-mail, who has no account: its record has no _account_id
GuestInfo == [email |-> PyStr(GuestEmail)]

Directory == AccountInfos \cup {GuestInfo}

GroupName == "devs"

Labels == {"Code-Review", "Verified"}

\* the identifier strings that address a record
SegsOf(info) == {Format(info[k]) : k \in DOMAIN info}

(***************************************************************************)
(* Endpoints and requests, as the client builds them                       *)
(***************************************************************************)
\* GerritChangeReviewers.__init__: self.endpoint
ReviewersEndpoint(change) == "/changes/" \o change \o "/reviewers"

endpoint == ReviewersEndpoint(Change)

default_headers == "default_headers"

NoHeaders == "none"

Request(method, path, json, headers) ==
  [method |-> method, path |-> path, json |-> json, headers |-> headers]

\* GerritChangeReviewer.__init__
GerritChangeReviewer(account, change) ==
  [account |-> account, change |-> change,
   endpoint |-> "/changes/" \o change \o "/reviewers/" \o Format(account)]

\* the caller holds no entity
NoEntity == [kind |-> "none"]

\* GerritBase.__init__: the HTTP calls made while an entity is constructed
GerritBase_init(entity) == << >>

(***************************************************************************)
(* The Gerrit server behind the HTTP client capability                     *)
(* get / post / delete raise requests.exceptions.HTTPError on a non-2xx    *)
(* status; a response is [status, body].                                   *)
(***************************************************************************)
\* the statuses reviewers.py classifies as "no such reviewer"
NotFoundStatuses == {404, 400}

\* failures of any other kind
OtherStatuses == {500}

FailStatuses == NotFoundStatuses \cup OtherStatuses

Raises(resp) == resp.status \notin 200 .. 299

RECURSIVE SetToSeq(_)
SetToSeq(S) ==
  IF S = {} THEN << >>
  ELSE LET x == CHOOSE y \in S : TRUE IN <<x>> \o SetToSeq(S \ {x})

\* the identifiers and the resource paths of every record of the directory
Addressed == [info \in Directory |-> SegsOf(info)]

ResourcePaths == [info \in Directory |-> {endpoint \o "/" \o s : s \in SegsOf(info)}]

\* the records of the directory a path addresses: endpoint/<identifier><suffix>
InfosAt(path, suffix) ==
  {info \in Directory : \E q \in ResourcePaths[info] : path = q \o suffix}

\* the accounts a ReviewerInput names: one account, a guest, or a group's members
AddTargets(json) ==
  LET seg == Format(DictGet(json, "reviewer")) IN
  IF seg = GroupName THEN AccountInfos
  ELSE {info \in Directory : seg \in Addressed[info]}

Answer(status, body, after, hit) ==
  [resp |-> [status |-> status, body |-> body], after |-> after, hit |-> hit]

Errors(S, rv, hit) == {Answer(s, << >>, rv, hit) : s \in S}

\* Every answer the server can give to a request when its reviewer set is rv:
\* the response, the reviewer set afterwards, and the reviewers of rv the
\* request addressed (hit).
Serve(req, rv) ==
  LET m == req.method
      p == req.path
      removed == IF m = "DELETE" THEN InfosAt(p, "")
                 ELSE IF m = "POST" THEN InfosAt(p, "/delete") ELSE {}
      voted == IF m = "DELETE"
                 THEN UNION {InfosAt(p, "/votes/" \o l) : l \in Labels}
               ELSE IF m = "POST"
                 THEN UNION {InfosAt(p, "/votes/" \o l \o "/delete") : l \in Labels}
               ELSE {}
  IN
  IF m = "GET" /\ p = endpoint \o "/"
    THEN \* list reviewers
         {Answer(200, SetToSeq(rv), rv, rv)} \cup Errors(OtherStatuses, rv, rv)
  ELSE IF m = "GET" /\ InfosAt(p, "/votes/") # {}
    THEN \* list votes
         LET hit == InfosAt(p, "/votes/") \cap rv IN
         IF hit # {}
           THEN {Answer(200, << >>, rv, hit)} \cup Errors(OtherStatuses, rv, hit)
           ELSE Errors(FailStatuses, rv, hit)
  ELSE IF m = "GET"
    THEN \* get reviewer
         LET hit == InfosAt(p, "") \cap rv IN
         IF hit # {}
           THEN {Answer(200, SetToSeq(hit), rv, hit)} \cup Errors(OtherStatuses, rv, hit)
           ELSE Errors(FailStatuses, rv, hit) \cup {Answer(200, << >>, rv, hit)}
  ELSE IF m = "POST" /\ p = endpoint
    THEN \* add reviewer
         LET targets == AddTargets(req.json) IN
         IF targets # {}
           THEN {Answer(200, SetToSeq(targets), rv \cup targets, targets \cap rv)}
                  \cup Errors(FailStatuses, rv, targets \cap rv)
           ELSE Errors(FailStatuses, rv, {})
  ELSE IF removed # {}
    THEN \* remove reviewer, plain or with a DeleteReviewerInput
         LET hit == removed \cap rv IN
         IF hit # {}
           THEN {Answer(204, << >>, rv \ hit, hit)} \cup Errors(OtherStatuses, rv, hit)
           ELSE Errors(FailStatuses, rv, hit)
  ELSE IF voted # {}
    THEN \* remove one vote: the reviewer stays on the change
         LET hit == voted \cap rv IN
         IF hit # {}
           THEN {Answer(204, << >>, rv, hit)} \cup Errors(FailStatuses, rv, hit)
           ELSE Errors(FailStatuses, rv, hit)
  ELSE Errors(FailStatuses, rv, {})

\* one HTTP call of the client, as recorded in the trace of the running operation
Call(req, answer) == [req |-> req, resp |-> answer.resp, hit |-> answer.hit]

\* the error gerrit.get / post / delete raise for a non-2xx response
HTTPError(resp) == [kind |-> "HTTPError", status |-> resp.status]

(***************************************************************************)
(* GerritChangeReviewers                                                   *)
(***************************************************************************)
\* list: the request
list_request(ep) == Request("GET", ep \o "/", None, NoHeaders)

\* list: the raw result of the server is passed through
list_result(resp) ==
  IF Raises(resp) THEN HTTPError(resp) ELSE [kind |-> "json", body |-> resp.body]

\* get: the lookup request
get_request(ep, account) == Request("GET", ep \o "/" \o Format(account), None, NoHeaders)

\* get with only 404 taken as "no such reviewer"
get_result_only404(change, account, resp) ==
  IF ~Raises(resp)
    THEN IF Len(resp.body) = 0
           THEN [kind |-> "IndexError"]
           ELSE [kind |-> "entity",
                 entity |-> GerritChangeReviewer(DictGet(resp.body[1], "_account_id"), change)]
  ELSE IF resp.status = 404
    THEN [kind |-> "ReviewerNotFoundError",
          message |-> "Reviewer " \o Format(account) \o " does not exist"]
  ELSE [kind |-> "GerritAPIException", cause |-> HTTPError(resp)]

\* get with every HTTP failure taken as "no such reviewer"
get_result_any_failure(change, account, resp) ==
  IF ~Raises(resp)
    THEN IF Len(resp.body) = 0
           THEN [kind |-> "IndexError"]
           ELSE [kind |-> "entity",
                 entity |-> GerritChangeReviewer(DictGet(resp.body[1], "_account_id"), change)]
  ELSE [kind |-> "ReviewerNotFoundError",
        message |-> "Reviewer " \o Format(account) \o " does not exist"]

\* get with the entity bound to the identifier the caller passed
get_result_requested(change, account, resp) ==
  IF ~Raises(resp)
    THEN IF Len(resp.body) = 0
           THEN [kind |-> "IndexError"]
           ELSE [kind |-> "entity", entity |-> GerritChangeReviewer(account, change)]
  ELSE IF resp.status \in NotFoundStatuses
    THEN [kind |-> "ReviewerNotFoundError",
          message |-> "Reviewer " \o Format(account) \o " does not exist"]
  ELSE [kind |-> "GerritAPIException", cause |-> HTTPError(resp)]

\* get: what the call returns or raises, given the answer to the lookup
get_result(change, account, resp) ==
  IF ~Raises(resp)
    THEN IF Len(resp.body) = 0
           THEN [kind |-> "IndexError"]
           ELSE [kind |-> "entity",
                 entity |-> GerritChangeReviewer(DictGet(resp.body[1], "_account_id"), change)]
  ELSE IF resp.status \in NotFoundStatuses
    THEN [kind |-> "ReviewerNotFoundError",
          message |-> "Reviewer " \o Format(account) \o " does not exist"]
  ELSE [kind |-> "GerritAPIException", cause |-> HTTPError(resp)]

\* get with a cache: an entity got earlier for the same identifier is returned
\* without asking the server
get_outcomes_cached(account) ==
  IF held # NoEntity /\ Format(held.account) = Format(account)
    THEN {[calls |-> << >>, result |-> [kind |-> "entity", entity |-> held],
           after |-> reviewers]}
    ELSE LET req == get_request(endpoint, account) IN
         {[calls |-> <<Call(req, a)>>,
           result |-> get_result(Change, account, a.resp),
           after |-> a.after] : a \in Serve(req, reviewers)}

\* get: every way one call of get(account) can go in the current state:
\* the HTTP calls it makes, its result, and the server's reviewer set afterwards
get_outcomes(account) ==
  LET req == get_request(endpoint, account) IN
  {LET result == get_result(Change, account, a.resp) IN
     [calls |-> <<Call(req, a)>>
                  \o (IF result.kind = "entity" THEN GerritBase_init(result.entity) ELSE << >>),
      result |-> result,
      after |-> a.after] : a \in Serve(req, reviewers)}

\* add that adds again a reviewer who is already on the change
add_after_get_readd(reviewer, got) ==
  IF got.kind \in {"entity", "ReviewerNotFoundError"}
    THEN [pc |-> "add_post", result |-> [kind |-> "pending"]]
    ELSE [pc |-> "idle", result |-> got]

\* add: after the first get(reviewer): where add goes next and, when it ends
\* here, what it raises
add_after_get(reviewer, got) ==
  IF got.kind = "entity"
    THEN [pc |-> "idle",
          result |-> [kind |-> "ReviewerAlreadyExistsError",
                      message |-> "Reviewer " \o Format(reviewer) \o " already exists"]]
  ELSE IF got.kind = "ReviewerNotFoundError"
    THEN [pc |-> "add_post", result |-> [kind |-> "pending"]]
  ELSE [pc |-> "idle", result |-> got]

\* add: the add request
add_request(ep, input_) == Request("POST", ep, input_, default_headers)

\* add that returns the entity of the POST's own answer, without a second get
add_after_post_trusting(resp) ==
  IF Raises(resp)
    THEN [pc |-> "idle", result |-> HTTPError(resp)]
    ELSE [pc |-> "idle",
          result |-> [kind |-> "entity",
                      entity |-> GerritChangeReviewer(DictGet(resp.body[1], "_account_id"),
                                                      Change)]]

\* add that goes on to the second get whatever the POST answered
add_after_post_regardless(resp) == [pc |-> "add_get", result |-> [kind |-> "pending"]]

\* add: after the POST: a failure is raised as it is, a success leads to the
\* second get(reviewer)
add_after_post(resp) ==
  IF Raises(resp)
    THEN [pc |-> "idle", result |-> HTTPError(resp)]
    ELSE [pc |-> "add_get", result |-> [kind |-> "pending"]]

(***************************************************************************)
(* GerritChangeReviewer                                                    *)
(***************************************************************************)
\* delete that ignores its input
delete_request_plain(entity, input_) == Request("DELETE", entity.endpoint, None, NoHeaders)

delete_request(entity, input_) ==
  IF input_ = None
    THEN Request("DELETE", entity.endpoint, None, NoHeaders)
    ELSE Request("POST", entity.endpoint \o "/delete", input_, default_headers)

list_votes_request(entity) == Request("GET", entity.endpoint \o "/votes/", None, NoHeaders)

\* delete_vote that addresses the reviewer instead of the reviewer's vote
delete_vote_request_unscoped(entity, label, input_) ==
  IF input_ = None
    THEN Request("DELETE", entity.endpoint, None, NoHeaders)
    ELSE Request("POST", entity.endpoint \o "/delete", input_, default_headers)

delete_vote_request(entity, label, input_) ==
  LET ep == entity.endpoint \o "/votes/" \o label IN
  IF input_ = None
    THEN Request("DELETE", ep, None, NoHeaders)
    ELSE Request("POST", ep \o "/delete", input_, default_headers)

\* a call that returns nothing, or raises the transport's error
unit_result(resp) == IF Raises(resp) THEN HTTPError(resp) ELSE [kind |-> "None"]

(***************************************************************************)
(* What the caller passes                                                  *)
(***************************************************************************)
\* an account as numeric id, username or e-mail; a guest's
\* e-mail; a group; a name nobody has
AccountArgs ==
  UNION {{PyInt(a), PyStr(Username(a)), PyStr(Email(a))} : a \in AccountIds}
    \cup {PyStr(GuestEmail), PyStr(GroupName), PyStr("nobody")}

\* ReviewerInput
AddInputs ==
  {[reviewer |-> r] : r \in AccountArgs}
    \cup {[reviewer |-> PyStr(Username(1001)), state |-> PyStr("CC")]}

\* DeleteReviewerInput / DeleteVoteInput, or no input
DeleteInputs == {None, [notify |-> PyStr("NONE")]}

(***************************************************************************)
(* State                                                                   *)
(*   reviewers  the server's reviewer set of the change                    *)
(*   pc         where the client is: idle, or inside add                   *)
(*   cur        the running or last operation of the client: its name,     *)
(*              argument, HTTP calls so far and result                     *)
(*   held       the entity the caller got last                             *)
(***************************************************************************)
Op(op, arg, calls, result) == [op |-> op, arg |-> arg, calls |-> calls, result |-> result]

Hold(result) == IF result.kind = "entity" THEN result.entity ELSE held

(***************************************************************************)
(* GerritAccount (gerrit/accounts/account.py)                              *)
(*   local_account   the local model: its username and name attributes     *)
(*   server_account  the account as the server has it                      *)
(*   last            the last operation on the model: its name, the model  *)
(*                   before it, its HTTP call and its result               *)
(***************************************************************************)
EmptyDict == [k \in {} |-> None]

\* AccountNameInput
NameInputs == {[name |-> PyStr("Ann")], [name |-> PyStr("Bob")], EmptyDict}

\* UsernameInput
UsernameInputs == {[username |-> PyStr("ann")], [username |-> PyStr("bob")]}

\* '/accounts/%s/...' % self.username
account_endpoint(acct, suffix) == "/accounts/" \o Format(acct.username) \o suffix

AccountAnswer(status, body, after) ==
  [resp |-> [status |-> status, body |-> body], after |-> after]

\* the statuses the server may refuse an account request with
AccountFailStatuses == {404, 405}

AccountErrors(acct) == {AccountAnswer(s, PyStr(""), acct) : s \in AccountFailStatuses}

\* Every answer of the server to a request on an account resource, when the
\* account is acct: the response and the account afterwards. A body is the
\* decoded content; an answer without content has the empty string as body.
ServeAccount(req, acct) ==
  LET base == "/accounts/" \o Format(acct.username) IN
  IF req.method = "PUT" /\ req.path = base \o "/name"
    THEN LET new == DictGet(req.json, "name") IN
         (IF new = None
            THEN {AccountAnswer(204, PyStr(""), [acct EXCEPT !.name = None])}
            ELSE {AccountAnswer(200, new, [acct EXCEPT !.name = new])})
           \cup AccountErrors(acct)
  ELSE IF req.method = "DELETE" /\ req.path = base \o "/name"
    THEN {AccountAnswer(204, PyStr(""), [acct EXCEPT !.name = None])} \cup AccountErrors(acct)
  ELSE IF req.method = "PUT" /\ req.path = base \o "/username"
    THEN LET new == DictGet(req.json, "username") IN
         {AccountAnswer(200, new, [acct EXCEPT !.username = new])} \cup AccountErrors(acct)
  ELSE IF req.method = "GET" /\ req.path \in {base \o "/status", base \o "/active"}
    THEN {AccountAnswer(200, PyStr("ok"), acct)} \cup AccountErrors(acct)
  ELSE IF req.method = "PUT" /\ req.path = base \o "/active"
    THEN {AccountAnswer(201, PyStr(""), acct)} \cup AccountErrors(acct)
  ELSE {AccountAnswer(404, PyStr(""), acct)}

\* gerrit.decode_response: raises for a non-2xx response, else the content
decode_response(resp) ==
  IF Raises(resp) THEN HTTPError(resp) ELSE [kind |-> "value", value |-> resp.body]

\* response.raise_for_status()
raise_for_status(resp) == IF Raises(resp) THEN HTTPError(resp) ELSE [kind |-> "None"]

set_name_request(acct, input_) ==
  Request("PUT", account_endpoint(acct, "/name"), input_, default_headers)

\* set_name, after the call: the model and the result
set_name_after(acct, resp) ==
  LET result == decode_response(resp) IN
  IF result.kind = "HTTPError"
    THEN [account |-> acct, result |-> result]
    ELSE [account |-> [acct EXCEPT !.name = result.value], result |-> result]

delete_name_request(acct) ==
  Request("DELETE", account_endpoint(acct, "/name"), None, NoHeaders)

\* delete_name with the name cleared before the status is looked at
delete_name_after_eager(acct, resp) ==
  [account |-> [acct EXCEPT !.name = None], result |-> raise_for_status(resp)]

\* delete_name, after the call: the model and the result
delete_name_after(acct, resp) ==
  LET raised == raise_for_status(resp) IN
  IF raised.kind = "HTTPError"
    THEN [account |-> acct, result |-> raised]
    ELSE [account |-> [acct EXCEPT !.name = None], result |-> [kind |-> "None"]]

set_username_request(acct, input_) ==
  Request("PUT", account_endpoint(acct, "/username"), input_, default_headers)

\* set_username, after the call: the model and the result
set_username_after(acct, resp) ==
  LET result == decode_response(resp) IN
  IF result.kind = "HTTPError"
    THEN [account |-> acct, result |-> result]
    ELSE [account |-> [acct EXCEPT !.username = result.value], result |-> result]

\* the operations that only read self.username: status, get_active, set_active
ReadOnlyRequests(acct) ==
  {[op |-> "status", req |-> Request("GET", account_endpoint(acct, "/status"), None, NoHeaders)],
   [op |-> "get_active", req |-> Request("GET", account_endpoint(acct, "/active"), None, NoHeaders)],
   [op |-> "set_active", req |-> Request("PUT", account_endpoint(acct, "/active"), None, NoHeaders)]}

AccountOp(op, before, req, resp, result) ==
  [op |-> op, before |-> before, req |-> req, resp |-> resp, result |-> result]

NoAccountOp == [op |-> "none"]

\* the account model is not in use
AccountAtRest ==
  /\ local_account = [username |-> PyStr("ann"), name |-> None]
  /\ server_account = local_account
  /\ last = NoAccountOp

Init ==
  /\ reviewers \in SUBSET Directory
  /\ pc = "idle"
  /\ cur = Op("none", None, << >>, [kind |-> "none"])
  /\ held = NoEntity
  /\ AccountAtRest

list ==
  /\ pc = "idle"
  /\ LET req == list_request(endpoint) IN
     \E a \in Serve(req, reviewers) :
       /\ cur' = Op("list", None, <<Call(req, a)>>, list_result(a.resp))
       /\ reviewers' = a.after
  /\ UNCHANGED <<pc, held>>

get ==
  /\ pc = "idle"
  /\ \E account \in AccountArgs : \E o \in get_outcomes(account) :
       /\ cur' = Op("get", account, o.calls, o.result)
       /\ reviewers' = o.after
       /\ held' = Hold(o.result)
  /\ UNCHANGED pc

\* add, first step: reviewer = input_.get("reviewer"); self.get(reviewer)
add ==
  /\ pc = "idle"
  /\ \E input_ \in AddInputs :
       LET reviewer == DictGet(input_, "reviewer") IN
       \E o \in get_outcomes(reviewer) :
         LET next == add_after_get(reviewer, o.result) IN
         /\ cur' = Op("add", input_, o.calls, next.result)
         /\ pc' = next.pc
         /\ reviewers' = o.after
  /\ UNCHANGED held

\* add, second step: self.gerrit.post(self.endpoint, json=input_, ...)
add_post ==
  /\ pc = "add_post"
  /\ LET req == add_request(endpoint, cur.arg) IN
     \E a \in Serve(req, reviewers) :
       LET next == add_after_post(a.resp) IN
       /\ cur' = [cur EXCEPT !.calls = @ \o <<Call(req, a)>>, !.result = next.result]
       /\ pc' = next.pc
       /\ reviewers' = a.after
  /\ UNCHANGED held

\* add, third step: return self.get(reviewer)
add_get ==
  /\ pc = "add_get"
  /\ \E o \in get_outcomes(DictGet(cur.arg, "reviewer")) :
       /\ cur' = [cur EXCEPT !.calls = @ \o o.calls, !.result = o.result]
       /\ reviewers' = o.after
       /\ held' = Hold(o.result)
  /\ pc' = "idle"

delete ==
  /\ pc = "idle"
  /\ held # NoEntity
  /\ \E input_ \in DeleteInputs :
       LET req == delete_request(held, input_) IN
       \E a \in Serve(req, reviewers) :
         /\ cur' = Op("delete", [entity |-> held, input |-> input_],
                      <<Call(req, a)>>, unit_result(a.resp))
         /\ reviewers' = a.after
  /\ UNCHANGED <<pc, held>>

list_votes ==
  /\ pc = "idle"
  /\ held # NoEntity
  /\ LET req == list_votes_request(held) IN
     \E a \in Serve(req, reviewers) :
       /\ cur' = Op("list_votes", [entity |-> held], <<Call(req, a)>>, list_result(a.resp))
       /\ reviewers' = a.after
  /\ UNCHANGED <<pc, held>>

delete_vote ==
  /\ pc = "idle"
  /\ held # NoEntity
  /\ \E label \in Labels, input_ \in DeleteInputs :
       LET req == delete_vote_request(held, label, input_) IN
       \E a \in Serve(req, reviewers) :
         /\ cur' = Op("delete_vote", [entity |-> held, label |-> label, input |-> input_],
                      <<Call(req, a)>>, unit_result(a.resp))
         /\ reviewers' = a.after
  /\ UNCHANGED <<pc, held>>

\* another client adds a reviewer to the change
other_client_adds ==
  /\ \E info \in Directory \ reviewers : reviewers' = reviewers \cup {info}
  /\ UNCHANGED <<pc, cur, held>>

\* another client removes a reviewer from the change
other_client_removes ==
  /\ \E info \in reviewers : reviewers' = reviewers \ {info}
  /\ UNCHANGED <<pc, cur, held>>

Next ==
  \/ list /\ UNCHANGED account_vars
  \/ get /\ UNCHANGED account_vars
  \/ add /\ UNCHANGED account_vars
  \/ add_post /\ UNCHANGED account_vars
  \/ add_get /\ UNCHANGED account_vars
  \/ delete /\ UNCHANGED account_vars
  \/ list_votes /\ UNCHANGED account_vars
  \/ delete_vote /\ UNCHANGED account_vars
  \/ other_client_adds /\ UNCHANGED account_vars
  \/ other_client_removes /\ UNCHANGED account_vars

Spec == Init /\ [][Next]_<<vars, account_vars>>

(***************************************************************************)
(* GerritAccount: the operations                                           *)
(***************************************************************************)
\* the model as built from the server's AccountInfo
AccountInit ==
  /\ server_account \in {[username |-> PyStr("ann"), name |-> n] : n \in {None, PyStr("Ann")}}
  /\ local_account = server_account
  /\ last = NoAccountOp
  /\ reviewers = {}
  /\ pc = "idle"
  /\ cur = Op("none", None, << >>, [kind |-> "none"])
  /\ held = NoEntity

set_name ==
  /\ \E input_ \in NameInputs :
       LET req == set_name_request(local_account, input_) IN
       \E a \in ServeAccount(req, server_account) :
         LET after == set_name_after(local_account, a.resp) IN
         /\ local_account' = after.account
         /\ server_account' = a.after
         /\ last' = AccountOp("set_name", local_account, req, a.resp, after.result)
  /\ UNCHANGED vars

delete_name ==
  /\ LET req == delete_name_request(local_account) IN
     \E a \in ServeAccount(req, server_account) :
       LET after == delete_name_after(local_account, a.resp) IN
       /\ local_account' = after.account
       /\ server_account' = a.after
       /\ last' = AccountOp("delete_name", local_account, req, a.resp, after.result)
  /\ UNCHANGED vars

set_username ==
  /\ \E input_ \in UsernameInputs :
       LET req == set_username_request(local_account, input_) IN
       \E a \in ServeAccount(req, server_account) :
         LET after == set_username_after(local_account, a.resp) IN
         /\ local_account' = after.account
         /\ server_account' = a.after
         /\ last' = AccountOp("set_username", local_account, req, a.resp, after.result)
  /\ UNCHANGED vars

\* status, get_active, set_active: one call, the model is left as it is
read_only ==
  /\ \E r \in ReadOnlyRequests(local_account) : \E a \in ServeAccount(r.req, server_account) :
       /\ last' = AccountOp(r.op, local_account, r.req, a.resp,
                            IF r.op = "set_active" THEN raise_for_status(a.resp)
                            ELSE decode_response(a.resp))
       /\ server_account' = a.after
  /\ UNCHANGED <<local_account, vars>>

\* somebody else changes the account on the server
other_client_renames ==
  /\ \E n \in {None, PyStr("Ann"), PyStr("Bob")} :
       /\ n # server_account.name
       /\ server_account' = [server_account EXCEPT !.name = n]
  /\ UNCHANGED <<local_account, last, vars>>

AccountNext ==
  \/ set_name
  \/ delete_name
  \/ set_username
  \/ read_only
  \/ other_client_renames

AccountSpec == AccountInit /\ [][AccountNext]_<<vars, account_vars>>

(***************************************************************************)
(* Properties                                                              *)
(***************************************************************************)
ReviewerPath(x) == "/changes/" \o Change \o "/reviewers/" \o Format(x)

Methods(calls) == [i \in 1 .. Len(calls) |-> calls[i].req.method]

\* the reviewer an add call names
Named == DictGet(cur.arg, "reviewer")

IsLookupOf(call, x) == call.req.method = "GET" /\ call.req.path = ReviewerPath(x)

IsAddPost(call) ==
  /\ call.req.method = "POST"
  /\ call.req.path = "/changes/" \o Change \o "/reviewers"
  /\ call.req.json = cur.arg

Documented(resp) == resp.status = 404 \/ (resp.status = 200 /\ Len(resp.body) > 0)

\* C2, as stated: every finished add of a reviewer the lookup reported absent,
\* whose POST the server accepted and whose calls were all answered as
\* Gerrit documents, has sent exactly one POST to the add endpoint followed
\* by exactly one GET of the reviewer, and has returned an entity.
C2_Original ==
  (/\ cur.op = "add"
   /\ pc = "idle"
   /\ cur.calls[1].resp.status \in {404, 400}
   /\ Len(cur.calls) >= 2
   /\ ~Raises(cur.calls[2].resp)
   /\ \A i \in 1 .. Len(cur.calls) : Documented(cur.calls[i].resp))
  => /\ Len(cur.calls) = 3
     /\ IsAddPost(cur.calls[2])
     /\ IsLookupOf(cur.calls[3], Named)
     /\ cur.result.kind = "entity"

\* C2, amended: a finished add whose lookup was answered 404 or 400 has sent
\* exactly one POST to the add endpoint, right after the lookup. If the POST
\* failed, nothing follows it and its error is the result. If it succeeded,
\* exactly one GET of the reviewer follows, and add returns an entity exactly
\* when that GET succeeds with a record: the entity of the record's
\* _account_id on the same change.
C2_AddAbsent ==
  (/\ cur.op = "add"
   /\ pc = "idle"
   /\ cur.calls[1].resp.status \in {404, 400})
  => /\ Len(cur.calls) >= 2
     /\ IsAddPost(cur.calls[2])
     /\ Cardinality({i \in 1 .. Len(cur.calls) : cur.calls[i].req.method = "POST"}) = 1
     /\ IF Raises(cur.calls[2].resp)
          THEN /\ Len(cur.calls) = 2
               /\ cur.result = [kind |-> "HTTPError", status |-> cur.calls[2].resp.status]
          ELSE /\ Len(cur.calls) = 3
               /\ IsLookupOf(cur.calls[3], Named)
               /\ LET resp == cur.calls[3].resp IN
                  IF resp.status = 200 /\ Len(resp.body) > 0
                    THEN /\ cur.result.kind = "entity"
                         /\ cur.result.entity.change = Change
                         /\ cur.result.entity.account = DictGet(resp.body[1], "_account_id")
                    ELSE cur.result.kind # "entity"

C2_Witness ==
  /\ cur.op = "add"
  /\ pc = "idle"
  /\ cur.calls[1].resp.status \in {404, 400}
  /\ Len(cur.calls) = 3
  /\ cur.result.kind = "entity"
  /\ cur.result.entity.account = PyInt(1001)

\* C3: get of an account that is not on the change, answered 404 or 400,
\* raises ReviewerNotFoundError whose message names the account as the caller
\* wrote it; no entity is returned.
C3_NotFound ==
  (/\ cur.op = "get"
   /\ cur.calls[1].hit = {}
   /\ cur.calls[1].resp.status \in {404, 400})
  => /\ cur.result.kind = "ReviewerNotFoundError"
     /\ cur.result.message = "Reviewer " \o Format(cur.arg) \o " does not exist"

C3_Witness ==
  /\ cur.op = "get"
  /\ cur.calls[1].hit = {}
  /\ cur.calls[1].resp.status = 400
  /\ cur.arg = PyInt(1001)
  /\ cur.result.kind = "ReviewerNotFoundError"

\* C4: get whose lookup fails with a status other than 404 and 400 raises
\* GerritAPIException caused by the transport's error; it raises no
\* ReviewerNotFoundError and returns no entity.
C4_OtherFailure ==
  (/\ cur.op = "get"
   /\ cur.calls[1].resp.status \notin 200 .. 299
   /\ cur.calls[1].resp.status \notin {404, 400})
  => /\ cur.result.kind = "GerritAPIException"
     /\ cur.result.cause = [kind |-> "HTTPError", status |-> cur.calls[1].resp.status]

C4_Witness ==
  /\ cur.op = "get"
  /\ cur.calls[1].resp.status = 500
  /\ cur.result.kind = "GerritAPIException"

\* the records a response carries
Records(resp) == {resp.body[i] : i \in 1 .. Len(resp.body)}

LastCall == cur.calls[Len(cur.calls)]

\* C5, as stated: an entity returned by get or add is the entity of an account
\* id that a record of that call's lookup response carries.
C5_Original ==
  (/\ cur.op \in {"get", "add"}
   /\ cur.result.kind = "entity")
  => \E info \in Records(LastCall.resp) :
       /\ "_account_id" \in DOMAIN info
       /\ cur.result.entity.account = info["_account_id"]

\* C6: delete sends exactly one HTTP call: without input a DELETE to
\* /changes/{change}/reviewers/{account}; with input a POST of that input to
\* /changes/{change}/reviewers/{account}/delete.
C6_Delete ==
  cur.op = "delete"
  => /\ Len(cur.calls) = 1
     /\ LET req == cur.calls[1].req
            e == cur.arg.entity
        IN IF cur.arg.input = None
             THEN /\ req.method = "DELETE"
                  /\ req.path = "/changes/" \o e.change \o "/reviewers/" \o Format(e.account)
             ELSE /\ req.method = "POST"
                  /\ req.json = cur.arg.input
                  /\ req.path = "/changes/" \o e.change \o "/reviewers/"
                                  \o Format(e.account) \o "/delete"

C6_Witness ==
  /\ cur.op = "delete"
  /\ cur.arg.input # None
  /\ cur.calls[1].req.method = "POST"
  /\ cur.calls[1].resp.status = 204

\* C7: delete_vote sends exactly one HTTP call: without input a DELETE to
\* /changes/{change}/reviewers/{account}/votes/{label}; with input a POST of
\* that input to .../votes/{label}/delete; never a call to the paths that
\* remove the reviewer.
C7_DeleteVote ==
  cur.op = "delete_vote"
  => /\ Len(cur.calls) = 1
     /\ LET req == cur.calls[1].req
            e == cur.arg.entity
            reviewer == "/changes/" \o e.change \o "/reviewers/" \o Format(e.account)
        IN /\ IF cur.arg.input = None
                THEN /\ req.method = "DELETE"
                     /\ req.path = reviewer \o "/votes/" \o cur.arg.label
                ELSE /\ req.method = "POST"
                     /\ req.json = cur.arg.input
                     /\ req.path = reviewer \o "/votes/" \o cur.arg.label \o "/delete"
           /\ req.path \notin {reviewer, reviewer \o "/delete"}

C7_Witness ==
  /\ cur.op = "delete_vote"
  /\ cur.arg.input = None
  /\ cur.arg.label = "Code-Review"
  /\ cur.calls[1].resp.status = 204
  /\ cur.calls[1].hit \subseteq reviewers
  /\ cur.calls[1].hit # {}

\* C8: get whose lookup succeeds with a record returns an entity on the
\* collection's change whose account is the _account_id of the first record,
\* whatever form of identifier the caller passed.
C8_Found ==
  (/\ cur.op = "get"
   /\ cur.calls[1].hit # {}
   /\ ~Raises(cur.calls[1].resp))
  => /\ cur.result.kind = "entity"
     /\ cur.result.entity.change = Change
     /\ cur.result.entity.account = DictGet(cur.calls[1].resp.body[1], "_account_id")

C8_Witness ==
  /\ cur.op = "get"
  /\ cur.arg = PyStr("u1002@example.com")
  /\ cur.result.kind = "entity"
  /\ cur.result.entity.account = PyInt(1002)

\* C9: the collection answers from the server alone. Every list, get and add
\* begins with a GET of its own; list passes on the reviewer set the server
\* had at that call; get returns an entity only for a reviewer who was on the
\* change at that call and raises ReviewerNotFoundError only for one who was
\* not; add rejects a reviewer as already existing only if the reviewer was on
\* the change at its lookup, and sends its POST only if the reviewer was not.
C9_NoCache ==
  /\ cur.op = "list"
     => /\ Len(cur.calls) = 1
        /\ cur.calls[1].req.method = "GET"
        /\ cur.calls[1].req.path = "/changes/" \o Change \o "/reviewers/"
        /\ cur.result.kind = "json"
           => /\ cur.result.body = cur.calls[1].resp.body
              /\ Records(cur.result) = cur.calls[1].hit
  /\ cur.op = "get"
     => /\ Len(cur.calls) >= 1
        /\ IsLookupOf(cur.calls[1], cur.arg)
        /\ cur.result.kind = "entity" => cur.calls[1].hit # {}
        /\ cur.result.kind = "ReviewerNotFoundError" => cur.calls[1].hit = {}
  /\ cur.op = "add"
     => /\ Len(cur.calls) >= 1
        /\ IsLookupOf(cur.calls[1], Named)
        /\ cur.result.kind = "ReviewerAlreadyExistsError" => cur.calls[1].hit # {}
        /\ Len(cur.calls) >= 2 => cur.calls[1].hit = {}

\* get(X) fails as not found although the caller still holds the entity of X
C9_Witness ==
  /\ cur.op = "get"
  /\ cur.arg = PyStr("u1001")
  /\ cur.result.kind = "ReviewerNotFoundError"
  /\ held # NoEntity
  /\ held.account = PyInt(1001)

\* C10: the HTTP calls of an add are, in this order, the lookup GET, the POST
\* and the second lookup GET: never more than three, never two POSTs. The
\* POST follows only a lookup answered 404 or 400, the second lookup only a
\* POST that succeeded. An add that has ended after a failed step has that
\* step's error as its result, and the failed step was its last call.
C10_AddSteps ==
  cur.op = "add"
  => LET n == Len(cur.calls) IN
     /\ n \in 1 .. 3
     /\ IsLookupOf(cur.calls[1], Named)
     /\ n >= 2 => /\ IsAddPost(cur.calls[2])
                  /\ cur.calls[1].resp.status \in {404, 400}
     /\ n = 3 => /\ IsLookupOf(cur.calls[3], Named)
                 /\ cur.calls[2].resp.status \in 200 .. 299
     /\ pc = "idle"
        => /\ (cur.calls[1].resp.status \notin (200 .. 299) \cup {404, 400})
              => /\ n = 1
                 /\ cur.result = [kind |-> "GerritAPIException",
                                  cause |-> [kind |-> "HTTPError",
                                             status |-> cur.calls[1].resp.status]]
           /\ (n >= 2 /\ cur.calls[2].resp.status \notin 200 .. 299)
              => /\ n = 2
                 /\ cur.result = [kind |-> "HTTPError", status |-> cur.calls[2].resp.status]
           /\ (n = 3 /\ cur.calls[3].resp.status \in {404, 400})
              => cur.result.kind = "ReviewerNotFoundError"
           /\ cur.calls[1].resp.status \in {404, 400} => n >= 2
           /\ (n = 2 /\ cur.calls[2].resp.status \in 200 .. 299) => FALSE
     /\ pc # "idle" => /\ cur.result.kind = "pending"
                       /\ pc = (IF n = 1 THEN "add_post" ELSE "add_get")

\* two clients add the same absent reviewer: the other client's add lands
\* between this client's lookup and its POST
C10_Witness ==
  /\ cur.op = "add"
  /\ pc = "idle"
  /\ Len(cur.calls) = 3
  /\ cur.calls[1].hit = {}
  /\ cur.calls[2].hit # {}
  /\ cur.result.kind = "entity"

\* an add that ends with the not-found of its second lookup
C10_WitnessRelookupFails ==
  /\ cur.op = "add"
  /\ pc = "idle"
  /\ Len(cur.calls) = 3
  /\ cur.calls[3].resp.status = 404
  /\ cur.result.kind = "ReviewerNotFoundError"

Succeeded == last.resp.status \in 200 .. 299

\* C11: the account model follows the server only after a call that
\* succeeded. After a successful set_name the name is the value the server
\* returned, after a successful delete_name it is None, after a successful
\* set_username the username is the returned value; nothing else of the model
\* changes. An operation whose call failed has the HTTP error as its result
\* and leaves name and username as they were. Every operation addresses
\* /accounts/{username}/... with the username the model had when it began,
\* so after a successful set_username with the new one.
C11_AccountMirror ==
  last.op # "none"
  => /\ last.req.path =
          "/accounts/" \o Format(last.before.username)
            \o (CASE last.op \in {"set_name", "delete_name"} -> "/name"
                  [] last.op = "set_username" -> "/username"
                  [] last.op = "status" -> "/status"
                  [] last.op \in {"get_active", "set_active"} -> "/active")
     /\ IF Succeeded
          THEN /\ last.op = "set_name"
                  => local_account = [last.before EXCEPT !.name = last.resp.body]
               /\ last.op = "delete_name"
                  => local_account = [last.before EXCEPT !.name = None]
               /\ last.op = "set_username"
                  => local_account = [last.before EXCEPT !.username = last.resp.body]
               /\ last.op \in {"status", "get_active", "set_active"}
                  => local_account = last.before
          ELSE /\ last.result = [kind |-> "HTTPError", status |-> last.resp.status]
               /\ local_account = last.before

\* a call after a successful set_username goes to the new username
C11_Witness ==
  /\ last.op = "set_name"
  /\ Succeeded
  /\ last.before.username = PyStr("bob")
  /\ last.req.path = "/accounts/bob/name"
  /\ local_account.name = PyStr("Ann")

\* a failed delete_name leaves the name
C11_WitnessFailure ==
  /\ last.op = "delete_name"
  /\ ~Succeeded
  /\ local_account.name = PyStr("Bob")

====
